---- MODULE Spec2Model ----
(***************************************************************************)
(* Model of labelbycondition.py: render(), _generate_label_column() and    *)
(* _add_column().                                                          *)
(*                                                                         *)
(* The rule loop of _generate_label_column is modelled one iteration per   *)
(* step, so that properties of the loop (monotone null bitmap, index       *)
(* invariant, dictionary contents) can be stated on the intermediate       *)
(* states.  The two external collaborators are inputs:                     *)
(*   - condition_to_mask: each condition carries the outcome the evaluator *)
(*     gives for it on the table (a boolean mask of len(arrow_table), or   *)
(*     re.error with a pattern);                                           *)
(*   - gen_unique_clean_colnames_and_warn: any name that is not an         *)
(*     existing column name, with or without a warning.                    *)
(***************************************************************************)
EXTENDS Integers, Sequences, FiniteSets

VARIABLES
    arrow_table,  \* input table: sequence of columns [name, data]
    params,       \* [colname, labels]; labels is a sequence of [value, condition]
    pc,           \* "start" | "loop" | "done"
    i,            \* number of label_specs the for loop has consumed
    errors,       \* local of _generate_label_column
    nulls,        \* local of _generate_label_column (TRUE = still null)
    values,       \* local of _generate_label_column (the dictionary)
    indices,      \* local of _generate_label_column (0-based dictionary indices)
    output,       \* what was written to output_path: [written, table]
    result        \* the list render() returned

vars == <<arrow_table, params, pc, i, errors, nulls, values, indices, output, result>>

\* ---------------------------------------------------------------- bounds
MaxRows == 2
MaxRules == 2

LabelValues == {"a", "b"}
Patterns == {"*", "+"}
ColNames == {"", "A", "B", "C"}
CleanColNames == {"C", "C 2"}

\* ---------------------------------------------------------------- helpers
Range(s) == {s[k] : k \in 1..Len(s)}

SeqsUpTo(S, n) == UNION {[1..k -> S] : k \in 0..n}

Min(S) == CHOOSE x \in S : \A y \in S : x <= y

\* ---------------------------------------------------------------- inputs
\* A table of n rows with two int columns, A = [1..n], B = [2..n+1].
IntColumn(name, n, offset) ==
    [name |-> name, data |-> [type |-> "int", values |-> [r \in 1..n |-> r + offset]]]

InputTable(n) == <<IntColumn("A", n, 0), IntColumn("B", n, 1)>>

TableLen(table) == Len(table[1].data.values)

ColumnNames(table) == [k \in 1..Len(table) |-> table[k].name]

\* What condition_to_mask does with a condition on a table of n rows.
Conditions(n) ==
    {[kind |-> "none"]}
    \cup {[kind |-> "regex_error", pattern |-> p] : p \in Patterns}
    \cup {[kind |-> "mask", mask |-> m] : m \in [1..n -> BOOLEAN]}

LabelSpecs(n) == {[value |-> v, condition |-> c] : v \in LabelValues, c \in Conditions(n)}

\* ---------------------------------------------------------------- _generate_label_column
InvalidRegexError(pattern) == [id |-> "error.invalidRegex", value |-> pattern]

\* Variant: the mask is used without "& nulls".
EffectiveMaskIgnoringNulls(mask, nulls_) == [r \in DOMAIN nulls_ |-> mask[r]]

\* mask.to_numpy() & nulls
EffectiveMask(mask, nulls_) == [r \in DOMAIN nulls_ |-> mask[r] /\ nulls_[r]]

\* Variant: the zero-rows test never skips.
AnyAlways(np_mask) == TRUE

\* np.any
Any(np_mask) == \E r \in DOMAIN np_mask : np_mask[r]

\* Variant: every value is treated as new.
ValueIndexAlwaysNew(values_, value) == Len(values_)

\* values.index(value) with the ValueError fallback: 0-based index
ValueIndex(values_, value) ==
    IF value \in Range(values_)
    THEN Min({k \in 1..Len(values_) : values_[k] = value}) - 1
    ELSE Len(values_)

\* Variant: the value is appended also when it is already present.
ValuesWithAlwaysAppend(values_, value) == Append(values_, value)

\* values after the try/except: appended only when value was absent
ValuesWith(values_, value) ==
    IF value \in Range(values_) THEN values_ ELSE Append(values_, value)

\* nulls[np_mask] = False
ClearNulls(nulls_, np_mask) == [r \in DOMAIN nulls_ |-> nulls_[r] /\ ~np_mask[r]]

\* Variant: the guard skips index 1 as well as index 0.
SetIndicesAboveOne(indices_, np_mask, index) ==
    IF index > 1
    THEN [r \in DOMAIN indices_ |-> IF np_mask[r] THEN index ELSE indices_[r]]
    ELSE indices_

\* Variant: the index is written to every row, not only the masked ones.
SetIndicesAllRows(indices_, np_mask, index) ==
    IF index > 0 THEN [r \in DOMAIN indices_ |-> index] ELSE indices_

\* if index > 0: indices[np_mask] = index
SetIndices(indices_, np_mask, index) ==
    IF index > 0
    THEN [r \in DOMAIN indices_ |-> IF np_mask[r] THEN index ELSE indices_[r]]
    ELSE indices_

\* The locals right after lines 16-19, for a table of n rows.
InitialLocals(n) ==
    [errors |-> <<>>,
     nulls |-> [r \in 1..n |-> TRUE],
     values |-> <<>>,
     indices |-> [r \in 1..n |-> 0]]

\* Variant: only the first error is kept.
AppendErrorFirstOnly(errors_, pattern) ==
    IF errors_ = <<>> THEN <<InvalidRegexError(pattern)>> ELSE errors_

\* errors.append(i18n.trans("error.invalidRegex", ...))
AppendError(errors_, pattern) == Append(errors_, InvalidRegexError(pattern))

\* Lines 40-55: what a successfully evaluated mask does to the locals st.
ApplyMask(st, value, mask) ==
    LET np_mask == EffectiveMask(mask, st.nulls)
    IN  IF ~Any(np_mask) THEN st
        ELSE LET index == ValueIndex(st.values, value)
             IN  [errors |-> st.errors,
                  nulls |-> ClearNulls(st.nulls, np_mask),
                  values |-> ValuesWith(st.values, value),
                  indices |-> SetIndices(st.indices, np_mask, index)]

\* Variant: an absent condition is applied as a mask that matches every row.
LoopBodyNoneMatchesAll(st, label_spec) ==
    LET value == label_spec.value
        condition == label_spec.condition
    IN  IF condition.kind = "none"
        THEN ApplyMask(st, value, [r \in DOMAIN st.nulls |-> TRUE])
        ELSE IF condition.kind = "regex_error"
        THEN [st EXCEPT !.errors = AppendError(@, condition.pattern)]
        ELSE ApplyMask(st, value, condition.mask)

\* One iteration of the for loop on the locals st.
LoopBody(st, label_spec) ==
    LET value == label_spec.value
        condition == label_spec.condition
    IN  IF condition.kind = "none" THEN st
        ELSE IF condition.kind = "regex_error"
        THEN [st EXCEPT !.errors = AppendError(@, condition.pattern)]
        ELSE ApplyMask(st, value, condition.mask)

\* pa.DictionaryArray.from_arrays(indices, pa.array(values), mask=nulls)
DictionaryArray(indices_, values_, nulls_) ==
    [type |-> "dictionary", indices |-> indices_, dictionary |-> values_, mask |-> nulls_]

RECURSIVE RunLoop(_, _, _)
RunLoop(st, label_specs, k) ==
    IF k > Len(label_specs) THEN st
    ELSE RunLoop(LoopBody(st, label_specs[k]), label_specs, k + 1)

\* The whole function: (label column, errors).
GenerateLabelColumn(table, label_specs) ==
    LET st == RunLoop(InitialLocals(TableLen(table)), label_specs, 1)
    IN  [column |-> DictionaryArray(st.indices, st.values, st.nulls),
         errors |-> st.errors]

\* ---------------------------------------------------------------- _add_column
\* Variant: the first column is always the one replaced.
ColumnPositionFirst(table, name) == 1

\* arrow_table.column_names.index(name), 1-based
ColumnPosition(table, name) == Min({k \in 1..Len(table) : table[k].name = name})

\* arrow_table.set_column(pos, name, data)
SetColumn(table, pos, name, data) ==
    [table EXCEPT ![pos] = [name |-> name, data |-> data]]

\* arrow_table.append_column(name, data)
AppendColumn(table, name, data) == Append(table, [name |-> name, data |-> data])

CleanedWarning(name) == [id |-> "util.colnames.warnings.ascii_cleaned", first_colname |-> name]

\* gen_unique_clean_colnames_and_warn([name], existing_names=...): a unique
\* name, possibly different from the one asked for, and zero or one warning.
GenUniqueCleanColnamesAndWarn(name, existing_names) ==
    UNION {{[colname |-> c, warnings |-> <<>>],
            [colname |-> c, warnings |-> <<CleanedWarning(c)>>]} :
           c \in CleanColNames \ Range(existing_names)}

NotWritten == [written |-> FALSE, table |-> <<>>]

Written(table) == [written |-> TRUE, table |-> table]

\* ---------------------------------------------------------------- state machine
Locals == [errors |-> errors, nulls |-> nulls, values |-> values, indices |-> indices]

Init ==
    /\ \E n \in 0..MaxRows :
        /\ arrow_table = InputTable(n)
        /\ \E colname \in ColNames, labels \in SeqsUpTo(LabelSpecs(n), MaxRules) :
            params = [colname |-> colname, labels |-> labels]
    /\ pc = "start"
    /\ i = 0
    /\ errors = <<>>
    /\ nulls = <<>>
    /\ values = <<>>
    /\ indices = <<>>
    /\ output = NotWritten
    /\ result = <<>>

\* Variant: the label column is generated before colname is tested, and its
\* errors are returned.
RenderNoOpAfterGenerate ==
    /\ pc = "start"
    /\ params.colname = ""
    /\ LET generated == GenerateLabelColumn(arrow_table, params.labels)
       IN  /\ output' = IF generated.errors = <<>> THEN Written(arrow_table) ELSE NotWritten
           /\ result' = generated.errors
    /\ pc' = "done"
    /\ UNCHANGED <<arrow_table, params, i, errors, nulls, values, indices>>

\* render, lines 81-84: empty colname writes the input table and returns [].
RenderNoOp ==
    /\ pc = "start"
    /\ params.colname = ""
    /\ output' = Written(arrow_table)
    /\ result' = <<>>
    /\ pc' = "done"
    /\ UNCHANGED <<arrow_table, params, i, errors, nulls, values, indices>>

\* render line 86 entering _generate_label_column, lines 16-19.
EnterGenerate ==
    /\ pc = "start"
    /\ params.colname /= ""
    /\ LET st == InitialLocals(TableLen(arrow_table))
       IN  /\ errors' = st.errors
           /\ nulls' = st.nulls
           /\ values' = st.values
           /\ indices' = st.indices
    /\ i' = 0
    /\ pc' = "loop"
    /\ UNCHANGED <<arrow_table, params, output, result>>

\* Which way an iteration leaves the loop body for label_spec.
Branch(label_spec, nulls_) ==
    IF label_spec.condition.kind = "none" THEN "none"
    ELSE IF label_spec.condition.kind = "regex_error" THEN "regex_error"
    ELSE IF ~Any(EffectiveMask(label_spec.condition.mask, nulls_)) THEN "no_rows"
    ELSE "assign"

\* One iteration of the for loop, lines 21-55, on the next label_spec.
LoopStep ==
    /\ LET st == LoopBody(Locals, params.labels[i + 1])
       IN  /\ errors' = st.errors
           /\ nulls' = st.nulls
           /\ values' = st.values
           /\ indices' = st.indices
    /\ i' = i + 1
    /\ UNCHANGED <<arrow_table, params, pc, output, result>>

\* lines 25-26: the condition is None.
RuleSkipNone ==
    /\ pc = "loop"
    /\ i < Len(params.labels)
    /\ Branch(params.labels[i + 1], nulls) = "none"
    /\ LoopStep

\* lines 28-38: condition_to_mask raises re.error.
RuleRegexError ==
    /\ pc = "loop"
    /\ i < Len(params.labels)
    /\ Branch(params.labels[i + 1], nulls) = "regex_error"
    /\ LoopStep

\* lines 40-45: the effective mask selects no row.
RuleNoRows ==
    /\ pc = "loop"
    /\ i < Len(params.labels)
    /\ Branch(params.labels[i + 1], nulls) = "no_rows"
    /\ LoopStep

\* lines 47-55: the rule claims rows.
RuleAssign ==
    /\ pc = "loop"
    /\ i < Len(params.labels)
    /\ Branch(params.labels[i + 1], nulls) = "assign"
    /\ LoopStep

\* The label column _generate_label_column returns from the current locals.
label_column == DictionaryArray(indices, values, nulls)

\* render lines 88-89: errors from the loop are returned, nothing is written.
RenderReturnErrors ==
    /\ pc = "loop"
    /\ i = Len(params.labels)
    /\ errors /= <<>>
    /\ result' = errors
    /\ pc' = "done"
    /\ UNCHANGED <<arrow_table, params, i, errors, nulls, values, indices, output>>

\* render lines 91-98 with _add_column lines 68-72: the column exists.
RenderReplaceColumn ==
    /\ pc = "loop"
    /\ i = Len(params.labels)
    /\ errors = <<>>
    /\ params.colname \in Range(ColumnNames(arrow_table))
    /\ output' = Written(SetColumn(arrow_table,
                                   ColumnPosition(arrow_table, params.colname),
                                   params.colname, label_column))
    /\ result' = errors
    /\ pc' = "done"
    /\ UNCHANGED <<arrow_table, params, i, errors, nulls, values, indices>>

\* render lines 91-98 with _add_column lines 73-77: a new column.
RenderAppendColumn ==
    /\ pc = "loop"
    /\ i = Len(params.labels)
    /\ errors = <<>>
    /\ params.colname \notin Range(ColumnNames(arrow_table))
    /\ \E clean \in GenUniqueCleanColnamesAndWarn(params.colname, ColumnNames(arrow_table)) :
        /\ output' = Written(AppendColumn(arrow_table, clean.colname, label_column))
        /\ result' = errors \o clean.warnings
    /\ pc' = "done"
    /\ UNCHANGED <<arrow_table, params, i, errors, nulls, values, indices>>

Next ==
    \/ RenderNoOp
    \/ EnterGenerate
    \/ RuleSkipNone
    \/ RuleRegexError
    \/ RuleNoRows
    \/ RuleAssign
    \/ RenderReturnErrors
    \/ RenderReplaceColumn
    \/ RenderAppendColumn

Spec == Init /\ [][Next]_vars

\* ---------------------------------------------------------------- properties
NRows == TableLen(arrow_table)

Rows == 1..NRows

labels == params.labels

\* The locals of _generate_label_column exist.
InGenerate == pc = "loop" \/ (pc = "done" /\ params.colname /= "")

\* The for loop is over.
LoopOver == InGenerate /\ i = Len(labels)

\* Rule j has a present condition whose evaluator mask is true at row r.
Matches(j, r) ==
    /\ labels[j].condition.kind = "mask"
    /\ labels[j].condition.mask[r]

\* The lowest-positioned rule that matches row r, 0 when there is none.
FirstMatch(r) ==
    LET S == {j \in 1..Len(labels) : Matches(j, r)}
    IN  IF S = {} THEN 0 ELSE Min(S)

\* Rule j is the first match of some row.
Claims(j) == \E r \in Rows : FirstMatch(r) = j

NoPatternErrors == \A j \in 1..Len(labels) : labels[j].condition.kind /= "regex_error"

Null == "null"

\* to_pylist() of a dictionary array, at row r
LabelAt(column, r) ==
    IF column.mask[r] THEN Null ELSE column.dictionary[column.indices[r] + 1]

\* The label column in the written table (its only dictionary column).
WrittenLabelColumn ==
    LET k == CHOOSE k \in 1..Len(output.table) : output.table[k].data.type = "dictionary"
    IN  output.table[k].data

ExpectedLabel(r) == IF FirstMatch(r) = 0 THEN Null ELSE labels[FirstMatch(r)].value

\* C1: when no condition raises a pattern error, the label column returned by
\* _generate_label_column, and the one render writes, gives each row the value
\* of the lowest-positioned rule with a present condition whose mask is true
\* at that row, and null exactly when no such rule exists.
C1_FirstMatchWins ==
    (LoopOver /\ NoPatternErrors) =>
        /\ \A r \in Rows : LabelAt(label_column, r) = ExpectedLabel(r)
        /\ \A r \in Rows : label_column.mask[r] <=> FirstMatch(r) = 0
        /\ pc = "done" =>
            /\ output.written
            /\ \A r \in Rows : LabelAt(WrittenLabelColumn, r) = ExpectedLabel(r)

C1_Witness ==
    /\ pc = "done"
    /\ output.written
    /\ Len(labels) = 2
    /\ labels[1].value /= labels[2].value
    /\ \E r1, r2 \in Rows :
        /\ Matches(1, r1) /\ Matches(2, r1)
        /\ ~Matches(1, r2) /\ Matches(2, r2)

\* C2: during the rule loop, a row whose is-null bit is cleared keeps it
\* cleared and keeps the label value it maps to in every later step.
C2_NeverReassigned ==
    [][pc = "loop" =>
        \A r \in DOMAIN nulls :
            ~nulls[r] =>
                /\ ~nulls'[r]
                /\ indices'[r] + 1 \in 1..Len(values')
                /\ values'[indices'[r] + 1] = values[indices[r] + 1]]_vars

C2_Witness ==
    /\ pc = "loop"
    /\ i = 2
    /\ labels[1].value /= labels[2].value
    /\ \E r1, r2 \in Rows :
        /\ Matches(1, r1) /\ Matches(2, r1)
        /\ ~Matches(1, r2) /\ Matches(2, r2)
        /\ ~nulls[r1] /\ ~nulls[r2]

IsPatternError(label_spec) == label_spec.condition.kind = "regex_error"

\* One error per failing rule among the first n rules, in rule order.
ExpectedErrors(n) ==
    LET failing == SelectSeq(SubSeq(labels, 1, n), IsPatternError)
    IN  [k \in 1..Len(failing) |-> InvalidRegexError(failing[k].condition.pattern)]

\* C3: pattern errors do not stop the loop: after every iteration the error
\* list holds one error per failing rule seen so far, in rule order; when any
\* rule failed, render ends after the whole list was consumed, returns exactly
\* those errors and writes no output.
C3_AllErrorsReported ==
    /\ InGenerate => errors = ExpectedErrors(i)
    /\ (pc = "done" /\ params.colname /= "" /\ ~NoPatternErrors) =>
        /\ i = Len(labels)
        /\ result = ExpectedErrors(Len(labels))
        /\ output = NotWritten

C3_Witness ==
    /\ pc = "done"
    /\ params.colname /= ""
    /\ Len(labels) = 2
    /\ IsPatternError(labels[1]) /\ IsPatternError(labels[2])
    /\ labels[1].condition.pattern /= labels[2].condition.pattern
    /\ Len(result) = 2

\* C4: with an empty colname render writes the input table unchanged and
\* returns no errors, whatever the rules are (invalid patterns included).
C4_EmptyColnameNoOp ==
    (pc = "done" /\ params.colname = "") =>
        /\ output = Written(arrow_table)
        /\ result = <<>>

C4_Witness ==
    /\ pc = "done"
    /\ params.colname = ""
    /\ NRows > 0
    /\ \E j \in 1..Len(labels) : IsPatternError(labels[j])

\* The first rule among those consumed that claimed a row for value v.
FirstClaimer(v) == Min({j \in 1..i : Claims(j) /\ labels[j].value = v})

\* C5: every dictionary entry is the label of at least one non-null row; the
\* dictionary holds exactly the values of the rules that claimed a row, in the
\* order of the first rule that claimed a row for each value.
C5_DictionaryUsedInFirstUseOrder ==
    InGenerate =>
        /\ \A k \in 1..Len(values) :
            \E r \in Rows : ~nulls[r] /\ indices[r] = k - 1
        /\ Range(values) = {labels[j].value : j \in {j \in 1..i : Claims(j)}}
        /\ \A k1, k2 \in 1..Len(values) :
            k1 < k2 => FirstClaimer(values[k1]) < FirstClaimer(values[k2])

C5_Witness ==
    /\ pc = "loop"
    /\ i = 2
    /\ labels[1].value /= labels[2].value
    /\ Claims(1)
    /\ ~Claims(2)
    /\ \E r \in Rows : Matches(2, r)
    /\ values = <<labels[1].value>>

\* C6: after any prefix of the loop the dictionary contains no value twice,
\* and rows claimed by rules carrying the same value share one index.
C6_DictionaryDistinct ==
    InGenerate =>
        /\ \A k1, k2 \in 1..Len(values) : values[k1] = values[k2] => k1 = k2
        /\ \A r1, r2 \in Rows :
            (/\ ~nulls[r1]
             /\ ~nulls[r2]
             /\ labels[FirstMatch(r1)].value = labels[FirstMatch(r2)].value)
            => indices[r1] = indices[r2]

C6_Witness ==
    /\ pc = "loop"
    /\ i = 2
    /\ labels[1].value = labels[2].value
    /\ Claims(1)
    /\ Claims(2)
    /\ Len(values) = 1

\* C7: when colname names an existing column and no rule raises a pattern
\* error, the written table has the same columns in the same order, the named
\* column holds the label column, every other column is unchanged, and no
\* warning is returned.
C7_ReplaceInPlace ==
    (/\ pc = "done"
     /\ params.colname \in Range(ColumnNames(arrow_table))
     /\ NoPatternErrors) =>
        /\ output.written
        /\ Len(output.table) = Len(arrow_table)
        /\ ColumnNames(output.table) = ColumnNames(arrow_table)
        /\ \A k \in 1..Len(arrow_table) :
            IF arrow_table[k].name = params.colname
            THEN output.table[k].data = label_column
            ELSE output.table[k] = arrow_table[k]
        /\ result = <<>>

C7_Witness ==
    /\ pc = "done"
    /\ params.colname = "B"
    /\ output.written
    /\ \E r \in Rows : ~nulls[r]

Present(label_spec) == label_spec.condition.kind /= "none"

\* C8: rules with an absent condition are inert: the label column, dictionary
\* and errors the loop ends with equal those of _generate_label_column on the
\* rule list with the absent-condition rules removed.
C8_AbsentConditionInert ==
    LoopOver =>
        [column |-> label_column, errors |-> errors]
            = GenerateLabelColumn(arrow_table, SelectSeq(labels, Present))

C8_Witness ==
    /\ pc = "loop"
    /\ i = 2
    /\ Len(labels) = 2
    /\ ~Present(labels[1])
    /\ Claims(2)
    /\ \E r \in Rows : nulls[r]

\* What render leaves for a table without rows.
EmptyTableOutcome ==
    /\ errors = <<>>
    /\ output.written
    /\ WrittenLabelColumn = DictionaryArray(<<>>, <<>>, <<>>)

\* C9 as stated: for a table of 0 rows and a non-empty colname the operation
\* succeeds with an empty dictionary column and no errors, whatever the rules.
C9_EmptyTableAnyRules ==
    (pc = "done" /\ params.colname /= "" /\ NRows = 0) => EmptyTableOutcome

\* C9 amended: the same, for rule lists in which no condition raises a
\* pattern error; render then returns only column-name warnings.
C9_EmptyTableNoPatternErrors ==
    (pc = "done" /\ params.colname /= "" /\ NRows = 0 /\ NoPatternErrors) =>
        /\ EmptyTableOutcome
        /\ params.colname \in Range(ColumnNames(arrow_table)) => result = <<>>
        /\ \A k \in 1..Len(result) : result[k].id = "util.colnames.warnings.ascii_cleaned"

C9_Witness ==
    /\ pc = "done"
    /\ params.colname /= ""
    /\ NRows = 0
    /\ output.written
    /\ Len(labels) = 2
    /\ \E j \in 1..Len(labels) : labels[j].condition.kind = "mask"

\* C10: after every iteration, a row still null has index 0, and a labeled
\* row has an index below the dictionary length whose entry is the value of
\* the rule that claimed the row.
C10_IndexInvariant ==
    InGenerate =>
        \A r \in Rows :
            IF nulls[r]
            THEN indices[r] = 0
            ELSE /\ FirstMatch(r) \in 1..i
                 /\ indices[r] \in 0..(Len(values) - 1)
                 /\ values[indices[r] + 1] = labels[FirstMatch(r)].value

C10_Witness ==
    /\ pc = "loop"
    /\ i = 2
    /\ Len(values) = 2
    /\ \E r1, r2 \in Rows :
        /\ ~nulls[r1] /\ indices[r1] = 0
        /\ ~nulls[r2] /\ indices[r2] = 1

====
